---- MODULE Spec2Model ----
(***************************************************************************)
(* A model of slapo's framework-model-dialect registry                     *)
(* (slapo/model_dialect/registry.py), of the Bert schedule_model driver    *)
(* (examples/bert/model.py) and of the schedule primitives the fusion      *)
(* tests exercise (tests/test_fusion.py).                                  *)
(***************************************************************************)
EXTENDS Integers, Sequences, FiniteSets, TLC

VARIABLES
    DIALECTS,     \* registry.py:5, kind -> (target -> dialect class)
    decorators,   \* the closure the caller holds: the last one returned, if any
    result,       \* outcome of the last registry call
    succeeded,    \* history: (kind, target) pairs whose registration succeeded
    sargs,        \* the arguments of the schedule_model call
    spc,          \* position inside schedule_model
    calls,        \* the calls schedule_model has made on the schedule, in order
    cutIdx,       \* index of the for loop over pipeline_cuts
    stageCuts,    \* cut points recorded on the traced encoder graph
    sres,         \* how schedule_model ended
    model,        \* the forward function of the module under schedule
    decomposed,   \* statements whose linear module has been decomposed
    graph,        \* the traced graph of the schedule, <<>> before tracing
    pat,          \* the pattern handed to find
    subgraph,     \* the groups returned by the last find
    prevFind,     \* the groups returned by the find before it
    fphase,       \* how far the schedule has come
    compiled      \* whether the fused regions were compiled

regVars == <<DIALECTS, decorators, result, succeeded>>
schVars == <<sargs, spc, calls, cutIdx, stageCuts, sres>>
fusVars == <<model, decomposed, graph, pat, subgraph, prevFind, fphase, compiled>>

vars == <<DIALECTS, decorators, result, succeeded,
          sargs, spc, calls, cutIdx, stageCuts, sres,
          model, decomposed, graph, pat, subgraph, prevFind, fphase, compiled>>

----------------------------------------------------------------------------
(* Bounds and input domains of the registry model.                         *)

NumTargets == 2

TargetNames == <<"target", "megatron", "deepspeed", "fairscale">>

Targets == {TargetNames[i] : i \in 1..NumTargets}
\* Dialect classes are only stored and compared: two of them tell a binding
\* that changed from one that did not.
Classes == {"ClsA", "ClsB"}

\* The two keys of DIALECTS, and one cls_type that is never a key.
Kinds == {"pipeline", "log_parser"}
AllKinds == Kinds \cup {"tokenizer"}

None == "None"

EmptyDict == [t \in {} |-> None]

\* Mutant: the dict is replaced by a one-entry dict.
SetItem_replace(d, key, value) == (key :> value)

\* d[key] = value on a Python dict
SetItem(d, key, value) == (key :> value) @@ d

\* The last call and what it returned: value is the class returned (or None),
\* mapping the dict returned by get_all_dialects (EmptyDict for other calls).
Res(op, cls_type, outcome, value) ==
    [op |-> op, cls_type |-> cls_type, outcome |-> outcome, value |-> value,
     mapping |-> EmptyDict]

----------------------------------------------------------------------------
(* The registry, registry.py.                                              *)

RegistryInit ==
    /\ DIALECTS = [k \in Kinds |-> EmptyDict]
    /\ decorators = {}
    /\ result = Res("init", None, "ok", None)
    /\ succeeded = {}

\* Mutant: cls_type is not validated when the closure is made.
register_model_dialect_nocheck(target, cls_type) ==
    /\ decorators' = {<<target, cls_type>>}
    /\ result' = Res("register", cls_type, "ok", None)
    /\ UNCHANGED <<DIALECTS, succeeded>>

\* register_model_dialect(target, cls_type): validates cls_type and returns
\* the closure, which the caller holds in place of the one it held before;
\* DIALECTS is not touched.
register_model_dialect(target, cls_type) ==
    IF cls_type \notin DOMAIN DIALECTS
    THEN /\ result' = Res("register", cls_type, "ValueError", None)
         /\ UNCHANGED <<DIALECTS, decorators, succeeded>>
    ELSE /\ decorators' = {<<target, cls_type>>}
         /\ result' = Res("register", cls_type, "ok", None)
         /\ UNCHANGED <<DIALECTS, succeeded>>

\* The membership test of the closure, registry.py:14: the key tested is the
\* string literal "target", not the closure's variable target.
AlreadyRegistered(target, cls_type) == "target" \in DOMAIN DIALECTS[cls_type]

\* Mutant: the class is stored under the key "target".
decorator_literal_key(target, cls_type, dialect_cls) ==
    /\ <<target, cls_type>> \in decorators
    /\ IF "target" \in DOMAIN DIALECTS[cls_type]
       THEN /\ result' = Res("decorator", cls_type, "ValueError", None)
            /\ UNCHANGED <<DIALECTS, decorators, succeeded>>
       ELSE /\ DIALECTS' = [DIALECTS EXCEPT
                              ![cls_type] = ("target" :> dialect_cls) @@ @]
            /\ succeeded' = succeeded \cup {<<cls_type, target>>}
            /\ result' = Res("decorator", cls_type, "ok", dialect_cls)
            /\ UNCHANGED decorators

\* decorator(dialect_cls) of the closure made for (target, cls_type).
decorator(target, cls_type, dialect_cls) ==
    /\ <<target, cls_type>> \in decorators
    /\ IF AlreadyRegistered(target, cls_type)
       THEN /\ result' = Res("decorator", cls_type, "ValueError", None)
            /\ UNCHANGED <<DIALECTS, decorators, succeeded>>
       ELSE /\ DIALECTS' = [DIALECTS EXCEPT
                              ![cls_type] = SetItem(@, target, dialect_cls)]
            /\ succeeded' = succeeded \cup {<<cls_type, target>>}
            /\ result' = Res("decorator", cls_type, "ok", dialect_cls)
            /\ UNCHANGED decorators

get_all_dialects(cls_type) ==
    /\ IF cls_type \notin DOMAIN DIALECTS
       THEN result' = Res("get_all", cls_type, "ValueError", None)
       ELSE result' = [Res("get_all", cls_type, "ok", None)
                          EXCEPT !.mapping = DIALECTS[cls_type]]
    /\ UNCHANGED <<DIALECTS, decorators, succeeded>>

get_dialect_cls(cls_type, target) ==
    /\ IF cls_type \notin DOMAIN DIALECTS
       THEN result' = Res("get", cls_type, "ValueError", None)
       ELSE IF target \notin DOMAIN DIALECTS[cls_type]
       THEN result' = Res("get", cls_type, "ValueError", None)
       ELSE result' = Res("get", cls_type, "ok", DIALECTS[cls_type][target])
    /\ UNCHANGED <<DIALECTS, decorators, succeeded>>

Register ==
    /\ \E t \in Targets, k \in AllKinds : register_model_dialect(t, k)
    /\ UNCHANGED <<schVars, fusVars>>

Decorate ==
    /\ \E t \in Targets, k \in Kinds, c \in Classes : decorator(t, k, c)
    /\ UNCHANGED <<schVars, fusVars>>

GetAll ==
    /\ \E k \in AllKinds : get_all_dialects(k)
    /\ UNCHANGED <<schVars, fusVars>>

Get ==
    /\ \E k \in AllKinds, t \in Targets : get_dialect_cls(k, t)
    /\ UNCHANGED <<schVars, fusVars>>

\* No schedule_model call is in progress.
ScheduleIdle ==
    /\ sargs = [disable_flash_attn |-> FALSE, fp16 |-> FALSE, world_size |-> 1,
                ckpt_ratio |-> 0, bcast_input |-> FALSE, prefix |-> "",
                has_cuts |-> FALSE, pipeline_cuts |-> <<>>]
    /\ spc = "idle"
    /\ calls = <<>>
    /\ cutIdx = 0
    /\ stageCuts = <<>>
    /\ sres = "none"

\* No module is under schedule.
FusionIdle ==
    /\ model = <<>>
    /\ decomposed = {}
    /\ graph = <<>>
    /\ pat = <<>>
    /\ subgraph = <<>>
    /\ prevFind = [valid |-> FALSE, groups |-> <<>>]
    /\ fphase = "idle"
    /\ compiled = FALSE

Init == RegistryInit /\ ScheduleIdle /\ FusionIdle

Next == Register \/ Decorate \/ GetAll \/ Get

Spec == Init /\ [][Next]_vars

----------------------------------------------------------------------------
(* Properties of the registry.                                             *)

\* The binding of (k2, t2) is the same before and after the step.
SameBinding(k2, t2) ==
    /\ (t2 \in DOMAIN DIALECTS'[k2]) <=> (t2 \in DOMAIN DIALECTS[k2])
    /\ t2 \in DOMAIN DIALECTS[k2] => DIALECTS'[k2][t2] = DIALECTS[k2][t2]

\* C1: applying the decorator made for (target, kind) while target is already
\* registered for kind fails with ValueError and leaves the first binding.
C1_DuplicateRejected ==
    [][\A t \in Targets, k \in Kinds, c \in Classes :
          (decorator(t, k, c) /\ t \in DOMAIN DIALECTS[k])
             => (result'.outcome = "ValueError" /\ DIALECTS' = DIALECTS)]_vars

\* C2: get_dialect_cls(kind, target) for a valid kind fails exactly when no
\* registration of target for kind has succeeded so far, and a failed lookup
\* leaves the registry unchanged.
C2_LookupFailsIffUnregistered ==
    [][\A k \in Kinds, t \in Targets :
          get_dialect_cls(k, t)
             => /\ (result'.outcome = "ValueError") <=> (<<k, t>> \notin succeeded)
                /\ result'.outcome = "ValueError" => DIALECTS' = DIALECTS]_vars

C2_Witness ==
    /\ result.op = "get"
    /\ result.cls_type \in Kinds
    /\ result.outcome = "ValueError"
    /\ \E t \in Targets : <<result.cls_type, t>> \in succeeded

\* C3: once class C is registered under (kind, target), every later lookup of
\* (kind, target) yields C: the binding never changes again.
C3_BindingStable ==
    [][\A k \in Kinds, t \in Targets :
          t \in DOMAIN DIALECTS[k]
             => (t \in DOMAIN DIALECTS'[k] /\ DIALECTS'[k][t] = DIALECTS[k][t])]_vars

\* C4: the registry has exactly the kinds "pipeline" and "log_parser"; a call
\* of register_model_dialect, get_all_dialects or get_dialect_cls with another
\* kind ends in ValueError, and no closure exists for such a kind.
C4_ExactlyTwoKinds ==
    /\ DOMAIN DIALECTS = {"pipeline", "log_parser"}
    /\ \A d \in decorators : d[2] \in {"pipeline", "log_parser"}
    /\ (result.op \in {"register", "get_all", "get"}
          /\ result.cls_type \notin {"pipeline", "log_parser"})
         => result.outcome = "ValueError"

C4_Witness ==
    /\ result.op = "register"
    /\ result.cls_type = "tokenizer"
    /\ result.outcome = "ValueError"
    /\ succeeded # {}

\* C9: applying the decorator for a valid kind and a target that is not
\* registered for that kind succeeds and binds the class.
C9_NeverWronglyRejected ==
    [][\A t \in Targets, k \in Kinds, c \in Classes :
          (decorator(t, k, c) /\ t \notin DOMAIN DIALECTS[k])
             => /\ result'.outcome = "ok"
                /\ t \in DOMAIN DIALECTS'[k]
                /\ DIALECTS'[k][t] = c]_vars

\* C10: only a successful decorator application changes the registry, and it
\* changes the single entry (kind, target); every other call and every failing
\* call leaves the whole registry unchanged.
C10_Frame ==
    [][/\ (Register \/ GetAll \/ Get) => DIALECTS' = DIALECTS
       /\ \A t \in Targets, k \in Kinds, c \in Classes :
             decorator(t, k, c)
                => /\ result'.outcome = "ValueError" => DIALECTS' = DIALECTS
                   /\ DOMAIN DIALECTS' = DOMAIN DIALECTS
                   /\ \A k2 \in Kinds : DOMAIN DIALECTS'[k2] \subseteq Targets
                   /\ \A k2 \in Kinds, t2 \in Targets :
                         <<k2, t2>> # <<k, t>> => SameBinding(k2, t2)]_vars

C10_Witness ==
    /\ result.op = "decorator"
    /\ result.outcome = "ok"
    /\ Cardinality({t \in Targets : <<result.cls_type, t>> \in succeeded}) >= 2

----------------------------------------------------------------------------
(* schedule_model, examples/bert/model.py, and the pipeline partitioner it *)
(* drives through cut_pipeline_stage.                                      *)

NumLayers == 3
MaxCuts == 2

\* Layer indices a caller may name; NumLayers itself names no layer.
CutValues == 0..NumLayers

SeqsUpTo(S, n) == UNION {[1..m -> S] : m \in 0..n}

Prefixes == {"", "bert"}

\* ckpt_ratio in percent
CkptRatios == {0, 50}

ScheduleArgs ==
    [disable_flash_attn : BOOLEAN, fp16 : BOOLEAN, world_size : 1..2,
     ckpt_ratio : CkptRatios, bcast_input : BOOLEAN, prefix : Prefixes,
     has_cuts : {TRUE}, pipeline_cuts : SeqsUpTo(CutValues, MaxCuts)]
    \cup
    [disable_flash_attn : BOOLEAN, fp16 : BOOLEAN, world_size : 1..2,
     ckpt_ratio : CkptRatios, bcast_input : BOOLEAN, prefix : Prefixes,
     has_cuts : {FALSE}, pipeline_cuts : {<<>>}]

\* One call on the model or the schedule; arg is the layer index of a cut.
Call(name, arg) == [name |-> name, prefix |-> sargs.prefix, arg |-> arg]

Structural == {"replace_and_shard_attention", "shard_mlp",
               "shard_word_embedding", "broadcast_input", "checkpoint"}

\* Python truth value of pipeline_cuts: None and [] are false.
Truthy(a) == a.has_cuts /\ Len(a.pipeline_cuts) > 0

\* The topological node sequence of the traced encoder: its input, the
\* layers 0..NumLayers-1, its output.
EncoderNodes == <<"in">> \o [i \in 1..NumLayers |-> i - 1] \o <<"out">>

\* The position of encoder.layer.<c> in EncoderNodes.
LayerPos(c) == c + 2

PathExists(c) == c \in 0..(NumLayers - 1)

\* The stages cut at `cuts`: each cut names the first node of a new stage.
Stages(cuts) ==
    LET bound(j) == IF j = 0 THEN 1
                    ELSE IF j = Len(cuts) + 1 THEN Len(EncoderNodes) + 1
                    ELSE LayerPos(cuts[j])
    IN  [j \in 1..(Len(cuts) + 1) |->
            SubSeq(EncoderNodes, bound(j - 1), bound(j) - 1)]

\* sch[path].cut_pipeline_stage() on the traced graph: the outcome and the
\* cut points afterwards.
cut_pipeline_stage(cuts, c) ==
    IF ~PathExists(c)
    THEN [outcome |-> "PathNotFound", cuts |-> cuts]
    ELSE IF Len(cuts) > 0 /\ LayerPos(c) <= LayerPos(cuts[Len(cuts)])
    THEN [outcome |-> "InvalidCutOrder", cuts |-> cuts]
    ELSE [outcome |-> "ok", cuts |-> Append(cuts, c)]

ScheduleInit ==
    /\ sargs \in ScheduleArgs
    /\ spc = "L31"
    /\ calls = <<>>
    /\ cutIdx = 0
    /\ stageCuts = <<>>
    /\ sres = "running"

\* model.py:31-33
Half ==
    /\ spc = "L31"
    /\ calls' = IF sargs.fp16 THEN Append(calls, Call("half", -1)) ELSE calls
    /\ spc' = "L35"
    /\ UNCHANGED <<sargs, cutIdx, stageCuts, sres>>

\* model.py:35
CreateSchedule ==
    /\ spc = "L35"
    /\ calls' = Append(calls, Call("create_schedule", -1))
    /\ spc' = "L40"
    /\ UNCHANGED <<sargs, cutIdx, stageCuts, sres>>

\* Mutant: the attention is replaced before disable_flash_attn is looked at.
Attention_late_raise ==
    /\ spc = "L40"
    /\ calls' = Append(calls, Call("replace_and_shard_attention", -1))
    /\ IF ~sargs.disable_flash_attn
       THEN spc' = "L47" /\ sres' = sres
       ELSE spc' = "done" /\ sres' = "NotImplementedError"
    /\ UNCHANGED <<sargs, cutIdx, stageCuts>>

\* model.py:40-44
Attention ==
    /\ spc = "L40"
    /\ IF ~sargs.disable_flash_attn
       THEN /\ calls' = Append(calls, Call("replace_and_shard_attention", -1))
            /\ spc' = "L47"
            /\ sres' = sres
       ELSE /\ spc' = "done"
            /\ sres' = "NotImplementedError"
            /\ calls' = calls
    /\ UNCHANGED <<sargs, cutIdx, stageCuts>>

\* model.py:47-48
ShardMlp ==
    /\ spc = "L47"
    /\ IF sargs.world_size > 1
       THEN calls' = Append(calls, Call("shard_mlp", -1)) /\ spc' = "L49"
       ELSE calls' = calls /\ spc' = "L57"
    /\ UNCHANGED <<sargs, cutIdx, stageCuts, sres>>

\* model.py:49
ShardWordEmbedding ==
    /\ spc = "L49"
    /\ calls' = Append(calls, Call("shard_word_embedding", -1))
    /\ spc' = "L53"
    /\ UNCHANGED <<sargs, cutIdx, stageCuts, sres>>

\* model.py:53-54
BroadcastInput ==
    /\ spc = "L53"
    /\ calls' = IF sargs.bcast_input
                THEN Append(calls, Call("broadcast_input", -1)) ELSE calls
    /\ spc' = "L57"
    /\ UNCHANGED <<sargs, cutIdx, stageCuts, sres>>

\* model.py:57-59
Checkpoint ==
    /\ spc = "L57"
    /\ calls' = IF sargs.ckpt_ratio > 0
                THEN Append(calls, Call("checkpoint", -1)) ELSE calls
    /\ spc' = "L62"
    /\ UNCHANGED <<sargs, cutIdx, stageCuts, sres>>

\* model.py:62-77
TraceForPipeline ==
    /\ spc = "L62"
    /\ IF Truthy(sargs)
       THEN /\ calls' = Append(calls, Call("trace_for_pipeline", -1))
            /\ cutIdx' = 1
            /\ spc' = "L78"
       ELSE /\ calls' = calls
            /\ cutIdx' = cutIdx
            /\ spc' = "L81"
    /\ UNCHANGED <<sargs, stageCuts, sres>>

\* Mutant: the loop runs over the cuts from the last to the first.
CutStage_reversed ==
    /\ spc = "L78"
    /\ IF cutIdx > Len(sargs.pipeline_cuts)
       THEN /\ spc' = "L81"
            /\ UNCHANGED <<calls, cutIdx, stageCuts, sres>>
       ELSE LET cut == sargs.pipeline_cuts[Len(sargs.pipeline_cuts) + 1 - cutIdx]
                r == cut_pipeline_stage(stageCuts, cut)
            IN  /\ calls' = Append(calls, Call("cut_pipeline_stage", cut))
                /\ stageCuts' = r.cuts
                /\ IF r.outcome = "ok"
                   THEN cutIdx' = cutIdx + 1 /\ spc' = spc /\ sres' = sres
                   ELSE cutIdx' = cutIdx /\ spc' = "done" /\ sres' = r.outcome
    /\ UNCHANGED sargs

\* model.py:78-79: one iteration of the loop, or its end
CutStage ==
    /\ spc = "L78"
    /\ IF cutIdx > Len(sargs.pipeline_cuts)
       THEN /\ spc' = "L81"
            /\ UNCHANGED <<calls, cutIdx, stageCuts, sres>>
       ELSE LET cut == sargs.pipeline_cuts[cutIdx]
                r == cut_pipeline_stage(stageCuts, cut)
            IN  /\ calls' = Append(calls, Call("cut_pipeline_stage", cut))
                /\ stageCuts' = r.cuts
                /\ IF r.outcome = "ok"
                   THEN cutIdx' = cutIdx + 1 /\ spc' = spc /\ sres' = sres
                   ELSE cutIdx' = cutIdx /\ spc' = "done" /\ sres' = r.outcome
    /\ UNCHANGED sargs

\* model.py:81
Return ==
    /\ spc = "L81"
    /\ spc' = "done"
    /\ sres' = "returned"
    /\ UNCHANGED <<sargs, calls, cutIdx, stageCuts>>

SchedStep(A) == A /\ UNCHANGED <<regVars, fusVars>>

InitSched == RegistryInit /\ ScheduleInit /\ FusionIdle

NextSched ==
    \/ SchedStep(Half)
    \/ SchedStep(CreateSchedule)
    \/ SchedStep(Attention)
    \/ SchedStep(ShardMlp)
    \/ SchedStep(ShardWordEmbedding)
    \/ SchedStep(BroadcastInput)
    \/ SchedStep(Checkpoint)
    \/ SchedStep(TraceForPipeline)
    \/ SchedStep(CutStage)
    \/ SchedStep(Return)

SpecSched == InitSched /\ [][NextSched]_vars

----------------------------------------------------------------------------
(* Properties of schedule_model and of the pipeline cuts.                  *)

StrictlyIncreasing(q) == \A i \in 1..(Len(q) - 1) : q[i] < q[i + 1]

RECURSIVE Concat(_)
Concat(ss) == IF Len(ss) = 0 THEN <<>> ELSE Head(ss) \o Concat(Tail(ss))

AllPathsExist(q) == \A i \in 1..Len(q) : PathExists(q[i])

Positions(name) == {i \in 1..Len(calls) : calls[i].name = name}

\* C7: cuts at strictly increasing positions partition the encoder's node
\* sequence into len(cuts)+1 contiguous stages, no node duplicated or
\* omitted; cuts given out of order end in InvalidCutOrder.
C7_CutsPartition ==
    (spc = "done" /\ ~sargs.disable_flash_attn /\ Truthy(sargs)
       /\ AllPathsExist(sargs.pipeline_cuts))
    => IF StrictlyIncreasing(sargs.pipeline_cuts)
       THEN /\ sres = "returned"
            /\ stageCuts = sargs.pipeline_cuts
            /\ Len(Stages(stageCuts)) = Len(sargs.pipeline_cuts) + 1
            /\ Concat(Stages(stageCuts)) = EncoderNodes
       ELSE sres = "InvalidCutOrder"

C7_Witness ==
    /\ spc = "done"
    /\ sres = "returned"
    /\ Len(sargs.pipeline_cuts) >= 2
    /\ Len(Stages(stageCuts)) = 3
    /\ \A j \in 1..3 : Len(Stages(stageCuts)[j]) > 0

\* C8: the structural primitives all precede trace_for_pipeline, which is
\* called at most once and before every cut_pipeline_stage; with
\* disable_flash_attn the call ends in NotImplementedError with no primitive
\* applied.
C8_PrimitivesBeforeTrace ==
    /\ Cardinality(Positions("trace_for_pipeline")) <= 1
    /\ \A i \in Positions("trace_for_pipeline"), j \in 1..Len(calls) :
          calls[j].name \in Structural => j < i
    /\ \A j \in Positions("cut_pipeline_stage") :
          \E i \in Positions("trace_for_pipeline") : i < j
    /\ sargs.disable_flash_attn
         => /\ \A j \in 1..Len(calls) :
                  calls[j].name \notin
                     Structural \cup {"trace_for_pipeline", "cut_pipeline_stage"}
            /\ sres # "returned"
            /\ spc = "done" => sres = "NotImplementedError"

C8_Witness ==
    /\ spc = "done"
    /\ sres = "returned"
    /\ Positions("checkpoint") # {}
    /\ Positions("broadcast_input") # {}
    /\ Cardinality(Positions("cut_pipeline_stage")) >= 2

----------------------------------------------------------------------------
(* The schedule primitives of tests/test_fusion.py: decompose, trace, find,*)
(* fuse and build, over a module whose forward is a list of statements.    *)

MaxStmts == 3
Modulus == 3

\* Tensor values, and the value of a parameter or literal operand.
Values == 0..(Modulus - 1)

\* An operand: 0 is the input x, k > 0 the result of statement (or node) k,
\* -1 a parameter or literal (the bias, the 1 of x + 1).
Stmt(op, args) == [op |-> op, args |-> args]

Node(op, args, body) == [op |-> op, args |-> args, body |-> body]

UnaryOps == {"linear", "relu", "gelu"}

\* The operands an add at statement k may read: the results of the two
\* statements before it, the input standing in for a result that does not
\* exist. A module or activation reads the result before it.
Operands(k) == {r \in {k - 1, k - 2} : r >= 0}

StmtsAt(k) ==
    {Stmt(op, <<k - 1>>) : op \in UnaryOps}
    \cup {Stmt("add", <<a, b>>) : a \in Operands(k), b \in Operands(k) \cup {-1}}

Models ==
    {m \in UNION {[1..n -> UNION {StmtsAt(k) : k \in 1..n}] : n \in 1..MaxStmts} :
        \A k \in 1..Len(m) : m[k] \in StmtsAt(k)}

\* The patterns of the tests: gelu(bias + x); conv, relu, x + 1; and two
\* more, a linear map with its bias and relu applied twice.
BiasGelu == <<Stmt("add", <<0, -1>>), Stmt("gelu", <<1>>)>>
VerticalFusion ==
    <<Stmt("linear", <<0>>), Stmt("relu", <<1>>), Stmt("add", <<2, -1>>)>>
LinearBias == <<Stmt("matmul", <<0>>), Stmt("add", <<1, -1>>)>>
ReluRelu == <<Stmt("relu", <<0>>), Stmt("relu", <<1>>)>>

Patterns == {BiasGelu, VerticalFusion, LinearBias, ReluRelu}

Range(q) == {q[i] : i \in 1..Len(q)}

\* -- decompose and trace --------------------------------------------------

\* The graph node that carries the result of statement k.
Out(k, dec) == k + Cardinality({d \in dec : d <= k})

MapRef(r, dec) == IF r > 0 THEN Out(r, dec) ELSE r

MapArgs(args, dec) == [p \in 1..Len(args) |-> MapRef(args[p], dec)]

\* A decomposed linear module: the matrix product, then the bias added to it.
DecomposedNodes(st, j, dec) ==
    <<Node("matmul", MapArgs(st.args, dec), <<>>),
      Node("add", <<j - 1, -1>>, <<>>)>>

\* The flattened graph of the module, nodes in topological order.
Trace(m, dec) ==
    [j \in 1..(Len(m) + Cardinality(dec)) |->
        LET k == CHOOSE k \in 1..Len(m) :
                    Out(k, dec) = j \/ (k \in dec /\ Out(k, dec) - 1 = j)
        IN  IF k \in dec
            THEN DecomposedNodes(m[k], Out(k, dec), dec)[2 - (Out(k, dec) - j)]
            ELSE Node(m[k].op, MapArgs(m[k].args, dec), <<>>)]

\* -- find -----------------------------------------------------------------

Users(g, i) ==
    {j \in 1..Len(g) : \E p \in 1..Len(g[j].args) : g[j].args[p] = i}

\* Node j of g can stand for node k of the pattern, given the nodes grp
\* matched so far: same operator, same arity, and the same edges to the
\* matched nodes.
NodeMatches(g, pt, grp, j, k) ==
    /\ g[j].op = pt[k].op
    /\ Len(g[j].args) = Len(pt[k].args)
    /\ \A p \in 1..Len(pt[k].args) :
          IF pt[k].args[p] > 0
          THEN g[j].args[p] = grp[pt[k].args[p]]
          ELSE g[j].args[p] \notin Range(grp)

RECURSIVE Extend(_, _, _)
Extend(g, pt, grp) ==
    IF Len(grp) = Len(pt) THEN grp
    ELSE LET prev == grp[Len(grp)]
             cands == {j \in Users(g, prev) :
                          NodeMatches(g, pt, grp, j, Len(grp) + 1)}
         IN  IF Cardinality(cands) = 1 /\ Users(g, prev) = cands
             THEN Extend(g, pt, Append(grp, CHOOSE j \in cands : TRUE))
             ELSE <<>>

\* The group matched from start node s, <<>> when there is none.
MatchAt(g, pt, s) ==
    IF NodeMatches(g, pt, <<>>, s, 1) THEN Extend(g, pt, <<s>>) ELSE <<>>

\* Mutant: the walk goes on at the node after the start node.
Advance_by_one(i, grp) == i + 1

\* Where the walk goes on after the group grp matched from node i.
Advance(i, grp) == grp[Len(grp)] + 1

RECURSIVE FindFrom(_, _, _)
FindFrom(g, pt, i) ==
    IF i > Len(g) THEN <<>>
    ELSE LET grp == MatchAt(g, pt, i)
         IN  IF grp # <<>>
             THEN <<grp>> \o FindFrom(g, pt, Advance(i, grp))
             ELSE FindFrom(g, pt, i + 1)

Find(g, pt) == FindFrom(g, pt, 1)

\* -- fuse -----------------------------------------------------------------

\* The operand slots of the group that read from outside it.
ExtSlots(g, grp) ==
    UNION {{<<k, p>> : p \in {q \in 1..Len(g[grp[k]].args) :
                                    g[grp[k]].args[q] \notin Range(grp)}} :
             k \in 1..Len(grp)}

SlotNo(g, grp, k, p) ==
    Cardinality({s \in ExtSlots(g, grp) :
                    s[1] < k \/ (s[1] = k /\ s[2] <= p)})

\* The inputs of the fused node: the group's external operands, in order.
ExtArgs(g, grp) ==
    [i \in 1..Cardinality(ExtSlots(g, grp)) |->
        LET s == CHOOSE s \in ExtSlots(g, grp) : SlotNo(g, grp, s[1], s[2]) = i
        IN  g[grp[s[1]]].args[s[2]]]

LocalIdx(grp, r) == CHOOSE k \in 1..Len(grp) : grp[k] = r

\* Mutant: the region ends one node early, its output is not the group's.
Body_drop_last(g, grp) ==
    [k \in 1..(Len(grp) - 1) |->
        Stmt(g[grp[k]].op,
             [p \in 1..Len(g[grp[k]].args) |->
                 IF g[grp[k]].args[p] \in Range(grp)
                 THEN LocalIdx(grp, g[grp[k]].args[p])
                 ELSE 0 - SlotNo(g, grp, k, p)])]

\* The extracted region: operand k > 0 is its own node k, operand -i its
\* input i.
Body(g, grp) ==
    [k \in 1..Len(grp) |->
        Stmt(g[grp[k]].op,
             [p \in 1..Len(g[grp[k]].args) |->
                 IF g[grp[k]].args[p] \in Range(grp)
                 THEN LocalIdx(grp, g[grp[k]].args[p])
                 ELSE 0 - SlotNo(g, grp, k, p)])]

\* One group replaced by one node, put where the group's last node was.
FuseGroup(g, grp) ==
    [j \in 1..Len(g) |->
        IF j = grp[Len(grp)]
        THEN Node("fused", ExtArgs(g, grp), Body(g, grp))
        ELSE IF j \in Range(grp) THEN Node("erased", <<>>, <<>>)
        ELSE g[j]]

RECURSIVE Fuse(_, _)
Fuse(g, groups) ==
    IF groups = <<>> THEN g
    ELSE Fuse(FuseGroup(g, Head(groups)), Tail(groups))

\* -- running a graph ------------------------------------------------------

OpVal(op, a) ==
    CASE op = "matmul" -> (a[1] + a[1]) % Modulus
      [] op = "linear" -> (a[1] + a[1] + 1) % Modulus
      [] op = "relu" -> IF a[1] + a[1] >= Modulus THEN 0 ELSE a[1]
      [] op = "gelu" -> (a[1] * a[1]) % Modulus
      [] op = "add" -> (a[1] + a[2]) % Modulus
      [] OTHER -> 0

RECURSIVE BodyVals(_, _, _)
BodyVals(body, ext, k) ==
    IF k = 0 THEN <<>>
    ELSE LET vs == BodyVals(body, ext, k - 1)
             val(r) == IF r > 0 THEN vs[r] ELSE ext[0 - r]
             a == [p \in 1..Len(body[k].args) |-> val(body[k].args[p])]
         IN  Append(vs, OpVal(body[k].op, a))

RECURSIVE NodeVals(_, _, _)
NodeVals(g, x, j) ==
    IF j = 0 THEN <<>>
    ELSE LET vs == NodeVals(g, x, j - 1)
             val(r) == IF r > 0 THEN vs[r] ELSE IF r = 0 THEN x ELSE 1
             a == [p \in 1..Len(g[j].args) |-> val(g[j].args[p])]
         IN  Append(vs,
                    IF g[j].op = "fused"
                    THEN BodyVals(g[j].body, a, Len(g[j].body))[Len(g[j].body)]
                    ELSE OpVal(g[j].op, a))

\* The output of the graph on input x: the value of its last node.
Output(g, x) == NodeVals(g, x, Len(g))[Len(g)]

\* -- the schedule ---------------------------------------------------------

FusionInit ==
    /\ model \in Models
    /\ pat \in Patterns
    /\ decomposed = {}
    /\ graph = <<>>
    /\ subgraph = <<>>
    /\ prevFind = [valid |-> FALSE, groups |-> <<>>]
    /\ fphase = "created"
    /\ compiled = FALSE

\* sch[path].decompose() on a linear module, before the trace
Decompose ==
    /\ fphase = "created"
    /\ \E k \in 1..Len(model) :
          /\ model[k].op = "linear"
          /\ k \notin decomposed
          /\ decomposed' = decomposed \cup {k}
    /\ UNCHANGED <<model, graph, pat, subgraph, prevFind, fphase, compiled>>

\* sch.trace(flatten=True)
TraceSchedule ==
    /\ fphase = "created"
    /\ graph' = Trace(model, decomposed)
    /\ fphase' = "traced"
    /\ UNCHANGED <<model, decomposed, pat, subgraph, prevFind, compiled>>

\* sch.find(pattern); the schedule is traced first if it has not been
FindPattern ==
    /\ fphase \in {"created", "traced", "found"}
    /\ graph' = IF fphase = "created" THEN Trace(model, decomposed) ELSE graph
    /\ subgraph' = Find(graph', pat)
    /\ prevFind' = [valid |-> fphase = "found", groups |-> subgraph]
    /\ fphase' = "found"
    /\ UNCHANGED <<model, decomposed, pat, compiled>>

\* sch.fuse(subgraph, compiler, name); a region the compiler rejects stays
\* an interpreted callable
FuseGroups ==
    /\ fphase = "found"
    /\ graph' = Fuse(graph, subgraph)
    /\ compiled' \in BOOLEAN
    /\ fphase' = "fused"
    /\ UNCHANGED <<model, decomposed, pat, subgraph, prevFind>>

\* slapo.build(sch)
Build ==
    /\ fphase \in {"created", "traced", "found", "fused"}
    /\ graph' = IF fphase = "created" THEN Trace(model, decomposed) ELSE graph
    /\ fphase' = "built"
    /\ UNCHANGED <<model, decomposed, pat, subgraph, prevFind, compiled>>

FusStep(A) == A /\ UNCHANGED <<regVars, schVars>>

InitFusion == RegistryInit /\ ScheduleIdle /\ FusionInit

NextFusion ==
    \/ FusStep(Decompose)
    \/ FusStep(TraceSchedule)
    \/ FusStep(FindPattern)
    \/ FusStep(FuseGroups)
    \/ FusStep(Build)

SpecFusion == InitFusion /\ [][NextFusion]_vars

----------------------------------------------------------------------------
(* Properties of find, fuse and build.                                     *)

\* C5: the built module gives, on every input, the output of the module as
\* it was before decompose and fuse.
C5_FusedEqualsOriginal ==
    fphase = "built"
       => \A x \in Values : Output(graph, x) = Output(Trace(model, {}), x)

C5_Witness ==
    /\ fphase = "built"
    /\ decomposed # {}
    /\ \E j \in 1..Len(graph) : graph[j].op = "fused" /\ Len(graph[j].args) >= 2
    /\ graph[Len(graph)].op # "fused"

C6_BiasGeluFound ==
    /\ fphase = "found"
    /\ pat = BiasGelu
    /\ Len(subgraph) >= 1
    /\ graph[subgraph[1][1]].op = "add"
    /\ graph[subgraph[1][2]].op = "gelu"

====
